---- MODULE Spec2Model ----
(***************************************************************************)
(* ssml-check: model of src/index.js.                                      *)
(*                                                                         *)
(* check(ssml, options) validates an SSML text: platform check, parse     *)
(* through the xml-js adapter (with one '&' retry), schema validation      *)
(* (checkForValidTags), audio extraction (getAudioFiles), optional audio   *)
(* probing (validateAudio / ffprobe) joined by Promise.all.                *)
(*                                                                         *)
(* JavaScript values are represented as follows.                           *)
(*   - a string is a TLA+ string; Chars(s) gives its characters where the  *)
(*     code looks inside it (regular expressions, parseInt);               *)
(*   - ABSENT marks a key an object does not have, UNDEF the value         *)
(*     undefined, NULL the value null, ZERO the number 0 as option value;  *)
(*   - an element is [name, hasAttributes, attributes, hasElements,        *)
(*     elements]: xml-js leaves the keys `attributes` and `elements` out   *)
(*     when there are none, which the two flags record;                    *)
(*   - an error record is [type, tag, attribute, value, detail].           *)
(***************************************************************************)
EXTENDS Integers, Sequences, FiniteSets, TLC

ABSENT == "<absent>"
UNDEF == "<undefined>"
NULL == "<null>"
ZERO == "<0>"

(***************************************************************************)
(* Strings as character sequences                                          *)
(***************************************************************************)
Digits == {"0", "1", "2", "3", "4", "5", "6", "7", "8", "9"}

DigitVal(c) ==
  CASE c = "0" -> 0 [] c = "1" -> 1 [] c = "2" -> 2 [] c = "3" -> 3
    [] c = "4" -> 4 [] c = "5" -> 5 [] c = "6" -> 6 [] c = "7" -> 7
    [] c = "8" -> 8 [] c = "9" -> 9

\* The characters of the strings the bounded inputs use.
Chars(s) ==
  CASE s = "5s" -> <<"5", "s">>
    [] s = "10s" -> <<"1", "0", "s">>
    [] s = "20s" -> <<"2", "0", "s">>
    [] s = "1.5s" -> <<"1", ".", "5", "s">>
    [] s = "500ms" -> <<"5", "0", "0", "m", "s">>
    [] s = "20000ms" -> <<"2", "0", "0", "0", "0", "m", "s">>
    [] s = "x5ms" -> <<"x", "5", "m", "s">>
    [] s = "5msx" -> <<"5", "m", "s", "x">>
    [] s = "infinity" -> <<"i", "n", "f", "i", "n", "i", "t", "y">>
    [] s = "soon" -> <<"s", "o", "o", "n">>
    [] s = "s" -> <<"s">>
    [] s = "" -> <<>>
    [] s = "2" -> <<"2">>
    [] s = "+1.5" -> <<"+", "1", ".", "5">>
    [] s = "-2" -> <<"-", "2">>
    [] s = "+6dB" -> <<"+", "6", "d", "B">>
    [] s = "6dB" -> <<"6", "d", "B">>
    [] s = "50%" -> <<"5", "0", "%">>
    [] s = "10%" -> <<"1", "0", "%">>
    [] s = "+10%" -> <<"+", "1", "0", "%">>
    [] s = "+50.5%" -> <<"+", "5", "0", ".", "5", "%">>
    [] s = "-33.3%" -> <<"-", "3", "3", ".", "3", "%">>
    [] s = "-40%" -> <<"-", "4", "0", "%">>
    [] s = "fast" -> <<"f", "a", "s", "t">>
    [] s = "high" -> <<"h", "i", "g", "h">>
    [] s = "loud" -> <<"l", "o", "u", "d">>
    [] s = "a-1" -> <<"a", "-", "1">>
    [] s = "_#-" -> <<"_", "#", "-">>
    [] s = "p{L}" -> <<"p", "{", "L", "}">>
    [] s = "a.end+2s" -> <<"a", ".", "e", "n", "d", "+", "2", "s">>
    [] s = "2min" -> <<"2", "m", "i", "n">>
    [] s = "https://a.mp3" ->
         <<"h", "t", "t", "p", "s", ":", "/", "/", "a", ".", "m", "p", "3">>
    [] s = "HTTPS://b.MP3" ->
         <<"H", "T", "T", "P", "S", ":", "/", "/", "b", ".", "M", "P", "3">>
    [] s = "http://c.mp3" ->
         <<"h", "t", "t", "p", ":", "/", "/", "c", ".", "m", "p", "3">>
    [] s = "https.mp3" -> <<"h", "t", "t", "p", "s", ".", "m", "p", "3">>
    [] s = "22050" -> <<"2", "2", "0", "5", "0">>
    [] s = "44100" -> <<"4", "4", "1", "0", "0">>
    [] s = "48000" -> <<"4", "8", "0", "0", "0">>
    [] s = "128000" -> <<"1", "2", "8", "0", "0", "0">>
    [] s = "10" -> <<"1", "0">>
    [] s = "300" -> <<"3", "0", "0">>

Lower(c) ==
  CASE c = "H" -> "h" [] c = "T" -> "t" [] c = "P" -> "p" [] c = "S" -> "s"
    [] c = "M" -> "m" [] OTHER -> c

StartsWithAt(s, i, pat) ==
  /\ i + Len(pat) - 1 <= Len(s)
  /\ \A k \in 1..Len(pat) : s[i + k - 1] = pat[k]

EndsWith(s, pat) ==
  /\ Len(pat) <= Len(s)
  /\ StartsWithAt(s, Len(s) - Len(pat) + 1, pat)

IsDigits(s) == Len(s) >= 1 /\ \A i \in 1..Len(s) : s[i] \in Digits

\* ^[0-9]+(\.[0-9]+)?$
IsDecimal(s) ==
  \/ IsDigits(s)
  \/ \E k \in 2..(Len(s) - 1) :
       /\ s[k] = "."
       /\ IsDigits(SubSeq(s, 1, k - 1))
       /\ IsDigits(SubSeq(s, k + 1, Len(s)))

\* /^(\+)?[0-9]+(\.[0-9]+)?$/g  (speed, repeatCount)
MatchCount(s) ==
  \/ IsDecimal(s)
  \/ Len(s) >= 1 /\ s[1] = "+" /\ IsDecimal(Tail(s))

\* /^[+-][0-9]+(\.[0-9]+)?dB$/g  (soundLevel, volume)
MatchDecibel(s) ==
  /\ Len(s) >= 4
  /\ s[1] \in {"+", "-"}
  /\ EndsWith(s, <<"d", "B">>)
  /\ IsDecimal(SubSeq(s, 2, Len(s) - 2))

TimeUnits == {<<"h">>, <<"m", "i", "n">>, <<"s">>, <<"m", "s">>}

\* [0-9]+(\.[0-9]+)?(h|min|s|ms)$ on the whole of s
IsClockValue(s) ==
  \E u \in TimeUnits :
    /\ EndsWith(s, u)
    /\ IsDecimal(SubSeq(s, 1, Len(s) - Len(u)))

\* /^[+-]?[0-9]+(\.[0-9]+)?(h|min|s|ms)$/g
MatchOffset(s) ==
  \/ IsClockValue(s)
  \/ Len(s) >= 1 /\ s[1] \in {"+", "-"} /\ IsClockValue(Tail(s))

\* /^.\.(begin|end)[+-][0-9]+(\.[0-9]+)?(h|min|s|ms)$/g
MatchSyncbase(s) ==
  \E w \in {<<"b", "e", "g", "i", "n">>, <<"e", "n", "d">>} :
    /\ Len(s) >= Len(w) + 3
    /\ s[2] = "."
    /\ StartsWithAt(s, 3, w)
    /\ s[Len(w) + 3] \in {"+", "-"}
    /\ IsClockValue(SubSeq(s, Len(w) + 4, Len(s)))

\* /^([-_#]|\p{L}|\p{D})+$/g : without the u flag \p is the letter p
RECURSIVE MatchXmlId(_)
MatchXmlIdRest(s) == s = <<>> \/ MatchXmlId(s)
MatchXmlId(s) ==
  \/ Len(s) >= 1 /\ s[1] \in {"-", "_", "#"} /\ MatchXmlIdRest(Tail(s))
  \/ /\ Len(s) >= 4
     /\ \/ StartsWithAt(s, 1, <<"p", "{", "L", "}">>)
        \/ StartsWithAt(s, 1, <<"p", "{", "D", "}">>)
     /\ MatchXmlIdRest(SubSeq(s, 5, Len(s)))

\* text.match('[0-9]+' + unit), not anchored: a digit followed by unit
ContainsDigitThen(s, unit) ==
  \E i \in 1..Len(s) : s[i] \in Digits /\ StartsWithAt(s, i + 1, unit)

\* parseInt(text): the number the leading digits spell, NaN when none.
RECURSIVE DigitsValue(_, _)
DigitsValue(s, acc) ==
  IF s = <<>> \/ s[1] \notin Digits THEN acc
  ELSE DigitsValue(Tail(s), 10 * acc + DigitVal(s[1]))

parseInt(s) ==
  LET neg == Len(s) >= 1 /\ s[1] = "-"
      body == IF Len(s) >= 1 /\ s[1] \in {"+", "-"} THEN Tail(s) ELSE s
  IN IF body = <<>> \/ body[1] \notin Digits
     THEN [nan |-> TRUE, value |-> 0]
     ELSE [nan |-> FALSE,
           value |-> IF neg THEN 0 - DigitsValue(body, 0) ELSE DigitsValue(body, 0)]


\* value > tenths / 10 for the decimal numeral whose digits before the point
\* spell `whole` and whose digits after it are frac, as parseFloat(s) > bound
\* decides it
exceeds(whole, frac, tenths) ==
  \/ 10 * whole + (IF frac = <<>> THEN 0 ELSE DigitVal(frac[1])) > tenths
  \/ /\ 10 * whole + (IF frac = <<>> THEN 0 ELSE DigitVal(frac[1])) = tenths
     /\ \E i \in 2..Len(frac) : frac[i] # "0"

PointAt(s) ==
  IF \E k \in 1..Len(s) : s[k] = "."
  THEN CHOOSE k \in 1..Len(s) : s[k] = "." ELSE Len(s) + 1

ExceedsTenths(s, tenths) ==
  exceeds(DigitsValue(SubSeq(s, 1, PointAt(s) - 1), 0),
          SubSeq(s, PointAt(s) + 1, Len(s)), tenths)

(***************************************************************************)
(* Constraint parsers                                                      *)
(***************************************************************************)
\* prosodyRate(text): the rate in hundredths, or undefined.
\* percentRate is lines 29-37 on the characters s of text.
percentRate(s, rate) ==
  IF ContainsDigitThen(s, <<"%">>) /\ ~rate.nan /\ rate.value >= 20
  THEN [kind |-> "number", hundredths |-> rate.value]
  ELSE [kind |-> "undefined", hundredths |-> 0]

prosodyRate(text) ==
  CASE text = "x-slow" -> [kind |-> "number", hundredths |-> 30]
    [] text = "slow" -> [kind |-> "number", hundredths |-> 60]
    [] text = "medium" -> [kind |-> "number", hundredths |-> 100]
    [] text = "fast" -> [kind |-> "number", hundredths |-> 150]
    [] text = "x-fast" -> [kind |-> "number", hundredths |-> 200]
    [] OTHER -> percentRate(Chars(text), parseInt(Chars(text)))

\* A maximum is <<>> when the argument is left out, <<m>> when it is m.
NoMaximum == <<>>
Truthy(maximum) == maximum # <<>> /\ maximum[1] # 0

\* readDuration(text, maximum): [kind, value] with kind "undefined", "nan"
\* (parseInt found no leading digits), "max_safe_integer" or "number" (ms).
\* parseDuration is lines 43-52 on the characters s of text, capDuration
\* lines 54-58.
parseDuration(text, s, n, maximum) ==
  IF ~Truthy(maximum) /\ text = "infinity"
  THEN [kind |-> "max_safe_integer", value |-> 0]
  ELSE IF ContainsDigitThen(s, <<"m", "s">>)
  THEN IF n.nan THEN [kind |-> "nan", value |-> 0]
       ELSE [kind |-> "number", value |-> n.value]
  ELSE IF Len(s) >= 2 /\ s[Len(s)] = "s" /\ IsDecimal(SubSeq(s, 1, Len(s) - 1))
  THEN [kind |-> "number", value |-> 1000 * n.value]
  ELSE [kind |-> "undefined", value |-> 0]

capDuration(time, maximum) ==
  IF time.kind = "undefined" THEN time
  ELSE IF Truthy(maximum)
  THEN IF time.kind = "number" /\ time.value <= maximum[1]
       THEN time ELSE [kind |-> "undefined", value |-> 0]
  ELSE time

parseIntOf(text) == parseInt(Chars(text))

readDuration(text, maximum) ==
  capDuration(parseDuration(text, Chars(text), parseIntOf(text), maximum), maximum)

(***************************************************************************)
(* Elements and error records                                              *)
(***************************************************************************)
\* element.attributes[attribute]
AttributeValue(element, attribute) ==
  IF \E i \in 1..Len(element.attributes) : element.attributes[i][1] = attribute
  THEN element.attributes[
         CHOOSE i \in 1..Len(element.attributes) :
           element.attributes[i][1] = attribute][2]
  ELSE UNDEF

\* Object.keys(element.attributes || {})
AttributeKeys(element) ==
  [i \in 1..Len(element.attributes) |-> element.attributes[i][1]]

ErrorRecord(type, tag, attribute, value, detail) ==
  [type |-> type, tag |-> tag, attribute |-> attribute, value |-> value,
   detail |-> detail]

OnlyType(type) == ErrorRecord(type, ABSENT, ABSENT, ABSENT, ABSENT)

IllegalTagError(element) ==
  ErrorRecord("tag", element.name, ABSENT, ABSENT, ABSENT)

\* createTagError(element, attribute, undefinedValue): reading
\* element.attributes[attribute] throws when the element has no attributes key
createTagError(element, attribute, undefinedValue) ==
  IF ~undefinedValue /\ ~element.hasAttributes
  THEN [threw |-> TRUE, error |-> OnlyType("TypeError")]
  ELSE [threw |-> FALSE,
        error |-> ErrorRecord("tag", element.name, attribute,
                              IF undefinedValue THEN UNDEF
                              ELSE AttributeValue(element, attribute),
                              ABSENT)]

(***************************************************************************)
(* Schema rules: checkForValidTags                                         *)
(***************************************************************************)
validTags ==
  {"audio", "break", "emphasis", "p", "prosody", "s", "say-as", "speak", "sub"}
validAmazonTags == {"amazon:effect", "lang", "phoneme", "voice", "w"}
validGoogleTags == {"par", "seq", "media"}

\* the condition of the first if: the tag is not legal under the platform
IllegalTag(name, platform) ==
  /\ name \notin validTags
  /\ ~(\/ platform = "amazon" /\ name \in validAmazonTags
       \/ platform = "google" /\ name \in validGoogleTags)

xmlLangs ==
  {"en-US", "en-GB", "en-IN", "en-AU", "en-CA", "de-DE", "es-ES", "it-IT",
   "ja-JP", "fr-FR"}

voiceNames ==
  {"Ivy", "Joanna", "Joey", "Justin", "Kendra", "Kimberly", "Matthew", "Salli",
   "Nicole", "Russell", "Amy", "Brian", "Emma", "Aditi", "Raveena", "Hans",
   "Marlene", "Vicki", "Conchita", "Enrique", "Carla", "Giorgio", "Mizuki",
   "Takumi", "Celine", "Lea", "Mathieu"}

interpretAsUniversal ==
  {"characters", "spell-out", "cardinal", "ordinal", "fraction", "unit", "date",
   "time", "telephone", "expletive"}

\* say-as interpret-as outside the universal list: `supported`.
\* The code writes list.indexOf(value !== -1): the argument is the boolean
\* true, which no list of strings holds, so indexOf gives -1, a truthy number,
\* whatever the value is.
interpretAsSupported(platform, value) ==
  LET indexOfTrue == 0 - 1
  IN \/ platform = "amazon" /\ indexOfTrue # 0
     \/ platform = "google" /\ indexOfTrue # 0

Undefined(duration) == duration.kind = "undefined"

\* The body of attributes.forEach for one attribute of a legal tag:
\*   "ok"      nothing is pushed
\*   "value"   errors.push(createTagError(element, attribute))
\*   "invalid" errors.push(createTagError(element, attribute, true))
bad(cond) == IF cond THEN "value" ELSE "ok"

\* a prosody pitch that is no keyword, s being its characters
signedPercent(s, sign) ==
  /\ Len(s) >= 3
  /\ s[1] = sign
  /\ s[Len(s)] = "%"
  /\ IsDecimal(SubSeq(s, 2, Len(s) - 1))

pitchRule(s) ==
  IF signedPercent(s, "+") THEN bad(ExceedsTenths(SubSeq(s, 2, Len(s) - 1), 500))
  ELSE IF signedPercent(s, "-") THEN bad(ExceedsTenths(SubSeq(s, 2, Len(s) - 1), 333))
  ELSE "value"

\* v is element.attributes[attribute]
valueRule(element, platform, attribute, v) ==
     CASE element.name = "amazon:effect" ->
            IF attribute = "name" THEN bad(v \notin {"whispered"}) ELSE "invalid"
       [] element.name = "audio" ->
            IF platform = "google" /\ attribute \in {"clipBegin", "clipEnd", "repeatDur"}
            THEN bad(Undefined(readDuration(v, NoMaximum)))
            ELSE IF platform = "google" /\ attribute \in {"speed", "repeatCount"}
            THEN bad(~MatchCount(Chars(v)))
            ELSE IF platform = "google" /\ attribute = "soundLevel"
            THEN bad(~MatchDecibel(Chars(v)))
            ELSE IF attribute # "src" THEN "invalid" ELSE "ok"
       [] element.name = "break" ->
            IF attribute = "strength"
            THEN bad(v \notin {"none", "x-weak", "weak", "medium", "strong", "x-strong"})
            ELSE IF attribute = "time"
            THEN bad(Undefined(readDuration(v, <<10000>>)))
            ELSE "invalid"
       [] element.name = "emphasis" ->
            IF attribute = "level"
            THEN bad(/\ v \notin {"strong", "moderate", "reduced"}
                     /\ (platform # "google" \/ v # "none"))
            ELSE "invalid"
       [] element.name = "lang" ->
            IF attribute = "xml:lang" THEN bad(v \notin xmlLangs) ELSE "invalid"
       [] element.name = "media" ->
            IF attribute = "xml:id" THEN bad(~MatchXmlId(Chars(v)))
            ELSE IF attribute \in {"begin", "end"}
            THEN bad(~MatchOffset(Chars(v)) /\ ~MatchSyncbase(Chars(v)))
            ELSE IF attribute = "repeatCount" THEN bad(~MatchCount(Chars(v)))
            ELSE IF attribute \in {"repeatDur", "fadeInDur", "fadeOutDur"}
            THEN bad(Undefined(readDuration(v, NoMaximum)))
            ELSE IF attribute = "soundLevel" THEN bad(~MatchDecibel(Chars(v)))
            ELSE "invalid"
       [] element.name \in {"p", "s"} -> "invalid"
       [] element.name = "phoneme" ->
            IF attribute = "alphabet" THEN bad(v \notin {"ipa", "x-sampa"})
            ELSE IF attribute # "ph" THEN "invalid" ELSE "ok"
       [] element.name = "prosody" ->
            IF attribute = "rate" THEN bad(prosodyRate(v).kind = "undefined")
            ELSE IF attribute = "pitch"
            THEN IF v \in {"x-low", "low", "medium", "high", "x-high"} THEN "ok"
                 ELSE pitchRule(Chars(v))
            ELSE IF attribute = "volume"
            THEN bad(/\ v \notin {"silent", "x-soft", "soft", "medium", "loud", "x-loud"}
                     /\ ~MatchDecibel(Chars(v)))
            ELSE "invalid"
       [] element.name = "say-as" ->
            IF attribute = "interpret-as"
            THEN bad(/\ v \notin interpretAsUniversal
                     /\ ~interpretAsSupported(platform, v))
            ELSE IF attribute = "format"
            THEN bad(v \notin {"mdy", "dmy", "ymd", "md", "dm", "ym", "my", "d", "m", "y"})
            ELSE IF platform = "google" /\ attribute = "detail"
            THEN bad(v \notin {"1", "2"})
            ELSE "invalid"
       [] element.name = "sub" ->
            IF attribute # "alias" THEN "invalid" ELSE "ok"
       [] element.name = "voice" ->
            IF attribute = "name" THEN bad(v \notin voiceNames) ELSE "invalid"
       [] element.name = "w" ->
            IF attribute = "role"
            THEN bad(v \notin {"amazon:VB", "amazon:VBD", "amazon:NN", "amazon:SENSE_1"})
            ELSE "invalid"
       [] OTHER -> "ok"

AttributeRule(element, platform, attribute) ==
  valueRule(element, platform, attribute, AttributeValue(element, attribute))

\* errors.push(createTagError(...)) as the rule of the attribute asks
pushTagError(acc, rule, made) ==
  IF rule = "ok" THEN acc
  ELSE IF made.threw THEN [acc EXCEPT !.threw = TRUE]
  ELSE [acc EXCEPT !.errors = Append(@, made.error)]

pushForRule(acc, element, attribute, rule) ==
  pushTagError(acc, rule, createTagError(element, attribute, rule = "invalid"))

\* attributes.forEach(...) over keys[i..]: acc is [threw, errors]
RECURSIVE forEachAttribute(_, _, _, _, _)
forEachAttribute(element, platform, keys, i, acc) ==
  IF acc.threw \/ i > Len(keys) THEN acc
  ELSE forEachAttribute(element, platform, keys, i + 1,
         pushForRule(acc, element, keys[i],
                     AttributeRule(element, platform, keys[i])))

\* the tags that end with: if (attributes.length === 0)
\*   errors.push(createTagError(element, 'none'))
requiresAttribute == {"amazon:effect", "audio", "emphasis", "lang"}

\* par and seq: a child whose name is not par, seq or media makes the code
\* evaluate createTagError(element, attribute) where no `attribute` is in
\* scope: a ReferenceError is thrown at the first such child
parSeqChildren(element) ==
  IF element.hasElements
     /\ \E i \in 1..Len(element.elements) :
          element.elements[i].name \notin {"par", "seq", "media"}
  THEN [threw |-> TRUE, errors |-> <<>>]
  ELSE [threw |-> FALSE, errors |-> <<>>]

\* if (attributes.length === 0) errors.push(createTagError(element, 'none'))
\* after the forEach left `each`
requireAttribute(element, each) ==
  IF each.threw \/ element.name \notin requiresAttribute
     \/ Len(element.attributes) # 0
  THEN each
  ELSE pushTagError(each, "value", createTagError(element, "none", FALSE))

\* the switch on element.name, for a legal tag: [threw, errors pushed]
tagRules(element, platform) ==
  IF element.name \in {"par", "seq"} THEN parSeqChildren(element)
  ELSE requireAttribute(element,
         forEachAttribute(element, platform, AttributeKeys(element), 1,
                          [threw |-> FALSE, errors |-> <<>>]))

\* lines 117-446 for one element: [threw, errors pushed]
ownErrors(element, platform) ==
  IF element.name = UNDEF THEN [threw |-> FALSE, errors |-> <<>>]
  ELSE IF IllegalTag(element.name, platform)
  THEN [threw |-> FALSE, errors |-> <<IllegalTagError(element)>>]
  ELSE tagRules(element, platform)

\* checkForValidTags(errors, element, platform): [threw, errors], errors being
\* the accumulator as the call leaves it (pushes made before a throw stay)
RECURSIVE checkForValidTags(_, _, _)
RECURSIVE checkElements(_, _, _, _)
checkElements(acc, elements, i, platform) ==
  IF acc.threw \/ i > Len(elements) THEN acc
  ELSE checkElements(checkForValidTags(acc.errors, elements[i], platform),
                     elements, i + 1, platform)

\* lines 448-452 after the element's own rules left `acc`
descend(acc, element, platform) ==
  IF acc.threw \/ ~element.hasElements THEN acc
  ELSE checkElements(acc, element.elements, 1, platform)

pushed(errors, own) == [threw |-> own.threw, errors |-> errors \o own.errors]

checkForValidTags(errors, element, platform) ==
  descend(pushed(errors, ownErrors(element, platform)), element, platform)

(***************************************************************************)
(* Audio extraction and validation                                         *)
(***************************************************************************)
\* getAudioFiles(element): [threw, files]
\* files = files.concat(getAudioFiles(item))
concatFiles(acc, sub) == [threw |-> sub.threw, files |-> acc.files \o sub.files]

RECURSIVE getAudioFiles(_)
RECURSIVE concatAudioFiles(_, _, _)
concatAudioFiles(acc, elements, i) ==
  IF acc.threw \/ i > Len(elements) THEN acc
  ELSE concatAudioFiles(concatFiles(acc, getAudioFiles(elements[i])),
                        elements, i + 1)

getAudioFiles(element) ==
  IF element.hasElements
  THEN concatAudioFiles([threw |-> FALSE, files |-> <<>>], element.elements, 1)
  ELSE IF element.name = "audio"
  THEN IF ~element.hasAttributes THEN [threw |-> TRUE, files |-> <<>>]
       ELSE IF AttributeValue(element, "src") \notin {UNDEF, ""}
       THEN [threw |-> FALSE, files |-> <<AttributeValue(element, "src")>>]
       ELSE [threw |-> FALSE, files |-> <<>>]
  ELSE [threw |-> FALSE, files |-> <<>>]

LowerCase(s) == [i \in 1..Len(s) |-> Lower(s[i])]

\* /^https(.)+\.mp3/ on lower-case characters
matchHttpsMp3(s) ==
  /\ StartsWithAt(s, 1, <<"h", "t", "t", "p", "s">>)
  /\ \E j \in 7..Len(s) : StartsWithAt(s, j, <<".", "m", "p", "3">>)

\* src.match(/^https(.)+\.mp3/gi)
MatchHttpsMp3(src) ==
  matchHttpsMp3(LowerCase(Chars(src)))

AudioError(src, detail) == ErrorRecord("audio", ABSENT, ABSENT, src, detail)

\* the three checks of one stream descriptor
streamErrors(src, stream) ==
  (IF parseInt(Chars(stream.sample_rate)).value \notin {22050, 24000, 16000}
   THEN <<AudioError(src, "Invalid bit rate " \o stream.sample_rate \o " Hz")>>
   ELSE <<>>)
  \o (IF parseInt(Chars(stream.bit_rate)).value # 48000
      THEN <<AudioError(src, "Invalid bit rate " \o stream.bit_rate)>>
      ELSE <<>>)
  \o (IF parseInt(Chars(stream.duration)).value > 240
      THEN <<AudioError(src, "Invalid duration " \o stream.duration \o " Hz")>>
      ELSE <<>>)

RECURSIVE allStreamErrors(_, _)
allStreamErrors(src, streams) ==
  IF streams = <<>> THEN <<>>
  ELSE streamErrors(src, Head(streams)) \o allStreamErrors(src, Tail(streams))

\* what ffprobe(src) can do: throw at the call, or return a promise that
\* rejects, or that resolves with info (with or without its streams list)
goodStream == [sample_rate |-> "22050", bit_rate |-> "48000", duration |-> "10"]
badStream == [sample_rate |-> "44100", bit_rate |-> "128000", duration |-> "300"]

Outcomes ==
  {[kind |-> "throws", hasStreams |-> FALSE, streams |-> <<>>],
   [kind |-> "rejects", hasStreams |-> FALSE, streams |-> <<>>],
   [kind |-> "resolves", hasStreams |-> FALSE, streams |-> <<>>],
   [kind |-> "resolves", hasStreams |-> TRUE, streams |-> <<goodStream>>],
   [kind |-> "resolves", hasStreams |-> TRUE, streams |-> <<goodStream, badStream>>]}

Undecided == [kind |-> "undecided", hasStreams |-> FALSE, streams |-> <<>>]

\* the array the promise of validateAudio(src) is fulfilled with once the
\* probe has settled with this outcome: the then callback, or the catch
\* callback when the probe rejects or the then callback throws
probeErrors(src, outcome) ==
  IF outcome.kind = "resolves" /\ outcome.hasStreams
  THEN allStreamErrors(src, outcome.streams)
  ELSE <<AudioError(src, "Can't access file")>>

(***************************************************************************)
(* The xml-js adapter                                                      *)
(*                                                                         *)
(* A text is its markup (the tree xml2json builds when the text is well    *)
(* formed) and its character data, a sequence over                         *)
(*   "&"     the character &                                               *)
(*   "amp;"  the four characters a m p ;                                   *)
(*   "t"     any other character of plain text                             *)
(*   "<"     a stray < that no retry repairs                               *)
(***************************************************************************)
CharTokens == {"&", "amp;", "t", "<"}

\* the parser accepts & only as the start of the entity &amp;
WellFormed(chars) ==
  \A i \in 1..Len(chars) :
    /\ chars[i] # "<"
    /\ chars[i] = "&" => (i < Len(chars) /\ chars[i + 1] = "amp;")

\* JSON.parse(convert.xml2json(text, {compact: false})): [threw, result]
xml2json(text) ==
  IF WellFormed(text.chars)
  THEN [threw |-> FALSE, result |-> text.markup]
  ELSE [threw |-> TRUE, result |-> [hasElements |-> FALSE, elements |-> <<>>]]

\* text.replace(/&/g, '&amp;'): every match replaced
RECURSIVE replaceEveryAmp(_)
replaceEveryAmp(chars) ==
  IF chars = <<>> THEN <<>>
  ELSE IF Head(chars) = "&" THEN <<"&", "amp;">> \o replaceEveryAmp(Tail(chars))
  ELSE <<Head(chars)>> \o replaceEveryAmp(Tail(chars))

\* text.replace('&', '&amp;'): a string pattern replaces the first match only
replaceAmp(chars) ==
  IF \E i \in 1..Len(chars) : chars[i] = "&"
  THEN LET i == CHOOSE k \in 1..Len(chars) :
                  chars[k] = "&" /\ \A j \in 1..(k - 1) : chars[j] # "&"
       IN SubSeq(chars, 1, i) \o <<"amp;">> \o SubSeq(chars, i + 1, Len(chars))
  ELSE chars

(***************************************************************************)
(* Bounded inputs                                                          *)
(***************************************************************************)
MaxRepeat == 6
MaxChars == 3
MaxPairRepeat == 2

Elem(name, hasAttributes, attributes, hasElements, elements) ==
  [name |-> name, hasAttributes |-> hasAttributes, attributes |-> attributes,
   hasElements |-> hasElements, elements |-> elements]

\* as xml-js delivers them: no attributes key without attributes, no elements
\* key without children
TextNode == Elem(UNDEF, FALSE, <<>>, FALSE, <<>>)
Leaf(name, attributes) == Elem(name, attributes # <<>>, attributes, FALSE, <<>>)
Wrap(name, attributes, elements) ==
  Elem(name, attributes # <<>>, attributes, TRUE, elements)
\* an adapter that delivers an empty attribute mapping
EmptyMap(name) == Elem(name, TRUE, <<>>, FALSE, <<>>)

One(name, attribute, values) == {Leaf(name, <<<<attribute, v>>>>) : v \in values}

RefA == "https://a.mp3"
RefB == "HTTPS://b.MP3"
Refs == {RefA, RefB, "http://c.mp3", "https.mp3"}

AudioItems ==
  {Leaf("audio", <<<<"src", RefA>>>>),
   Leaf("audio", <<<<"src", RefB>>>>),
   Leaf("audio", <<<<"src", "http://c.mp3">>>>),
   Leaf("audio", <<<<"src", "https.mp3">>>>),
   Leaf("audio", <<<<"src", "">>>>),
   Wrap("audio", <<<<"src", RefA>>>>, <<TextNode>>),
   Leaf("audio", <<<<"src", RefA>>, <<"soundLevel", "+6dB">>>>),
   Leaf("audio", <<<<"clipBegin", "5s">>>>),
   Leaf("audio", <<<<"src", RefB>>, <<"speed", "-2">>, <<"repeatDur", "soon">>>>),
   Leaf("audio", <<>>),
   EmptyMap("audio")}

Items ==
  AudioItems
  \cup {TextNode,
        Wrap("p", <<>>, <<TextNode>>),
        Leaf("p", <<<<"foo", "1">>>>),
        Leaf("s", <<<<"foo", "1">>>>),
        Wrap("sub", <<<<"alias", "x">>, <<"foo", "1">>>>, <<TextNode>>),
        Wrap("speak", <<<<"version", "1">>>>, <<TextNode>>),
        Wrap("foo", <<>>, <<Leaf("p", <<<<"foo", "1">>>>), Leaf("bar", <<>>)>>),
        Leaf("emphasis", <<>>), EmptyMap("emphasis"),
        Leaf("emphasis", <<<<"level", "strong">>, <<"foo", "1">>>>),
        Leaf("amazon:effect", <<>>), EmptyMap("amazon:effect"),
        Leaf("lang", <<>>), EmptyMap("lang"),
        Leaf("break", <<>>),
        Leaf("par", <<>>),
        Wrap("par", <<>>, <<Leaf("media", <<>>), Wrap("seq", <<>>, <<Leaf("par", <<>>)>>)>>),
        Wrap("par", <<>>, <<Leaf("media", <<>>), Leaf("p", <<>>)>>),
        Wrap("seq", <<>>, <<TextNode>>),
        Wrap("seq", <<>>, <<Leaf("media", <<<<"begin", "soon">>>>)>>),
        Leaf("media", <<<<"xml:id", "_#-">>, <<"begin", "a.end+2s">>, <<"end", "2min">>,
                        <<"repeatCount", "+1.5">>, <<"soundLevel", "6dB">>>>),
        Leaf("media", <<<<"xml:id", "a-1">>, <<"fadeInDur", "infinity">>,
                        <<"fadeOutDur", "x5ms">>, <<"foo", "1">>>>),
        Leaf("phoneme", <<<<"alphabet", "ipa">>, <<"ph", "x">>>>),
        Leaf("phoneme", <<<<"alphabet", "x">>, <<"foo", "1">>>>),
        Leaf("prosody", <<<<"rate", "50%">>, <<"pitch", "+10%">>, <<"volume", "+6dB">>>>),
        Leaf("prosody", <<<<"rate", "10%">>, <<"pitch", "+50.5%">>, <<"volume", "6dB">>>>),
        Leaf("prosody", <<<<"rate", "fast">>, <<"pitch", "-40%">>, <<"foo", "1">>>>),
        Leaf("prosody", <<<<"pitch", "-33.3%">>, <<"volume", "loud">>>>),
        Leaf("w", <<<<"role", "amazon:VB">>>>),
        Leaf("w", <<<<"role", "x">>, <<"foo", "1">>>>)}
  \cup One("emphasis", "level", {"none", "x"})
  \cup One("amazon:effect", "name", {"whispered", "x"})
  \cup One("lang", "xml:lang", {"en-US", "xx"})
  \cup One("say-as", "interpret-as", {"cardinal", "number", "bleep", "bogus"})
  \cup One("say-as", "format", {"mdy", "xyz"})
  \cup One("say-as", "detail", {"1", "3"})
  \cup One("break", "time", {"5s", "20s", "500ms", "1.5s", "20000ms", "infinity",
                           "5msx", "x5ms"})
  \cup One("break", "strength", {"weak", "x"})
  \cup One("voice", "name", {"Joanna", "Bob"})

\* elements that follow another one, to see that validation goes on
Followers == {Leaf("p", <<<<"foo", "1">>>>), Leaf("audio", <<<<"src", RefA>>>>)}

Speak(elements) ==
  IF elements = <<>> THEN Leaf("speak", <<>>) ELSE Wrap("speak", <<>>, elements)

Result(elements) == [hasElements |-> elements # <<>>, elements |-> elements]

Documents ==
  {Speak(<<>>)}
  \cup {Speak([i \in 1..n |-> item]) : n \in 1..MaxRepeat, item \in Items}
  \cup {Speak(<<item, next>>) : item \in Items, next \in Followers}
  \cup {Speak(<<Wrap(outer, <<>>, <<item>>)>>) :
          outer \in {"p", "foo"}, item \in Items}

\* parse results that are not one speak element
OtherResults ==
  {Result(<<>>),
   Result(<<Wrap("p", <<>>, <<Leaf("p", <<<<"foo", "1">>>>)>>)>>),
   Result(<<TextNode, Speak(<<>>)>>)}

CharData == UNION {[1..n -> CharTokens] : n \in 0..MaxChars}

Texts ==
  {[markup |-> Result(<<d>>), chars |-> <<>>] : d \in Documents}
  \cup {[markup |-> r, chars |-> <<>>] : r \in OtherResults}
  \cup {[markup |-> Result(<<Speak(<<item>>)>>), chars |-> chars] :
          item \in Followers, chars \in CharData}

PlatformValues ==
  {ABSENT, "all", "amazon", "google", "", NULL, ZERO, "Amazon", "alexa"}

\* the options argument: left out, or an object
OptionValues ==
  {[given |-> FALSE, platform |-> ABSENT, validateAudioFiles |-> FALSE]}
  \cup {[given |-> TRUE, platform |-> p, validateAudioFiles |-> v] :
          p \in PlatformValues, v \in BOOLEAN}

\* the inputs of the specification with two calls
PairTexts ==
  {[markup |-> Result(<<Speak([i \in 1..n |-> item])>>), chars |-> <<>>] :
     n \in 1..MaxPairRepeat, item \in AudioItems}
  \cup {[markup |-> Result(<<Speak(<<item, next>>)>>), chars |-> <<>>] :
          item \in {Leaf("audio", <<<<"src", RefB>>>>), Leaf("emphasis", <<>>),
                    Leaf("p", <<<<"foo", "1">>>>)},
          next \in Followers}
  \cup {[markup |-> Result(<<Speak(<<>>)>>), chars |-> chars] :
          chars \in {<<"&">>, <<"&", "&">>}}

PairOptions ==
  {o \in OptionValues : o.platform \in {ABSENT, "google", "alexa"}}

(***************************************************************************)
(* check(ssml, options)                                                    *)
(*                                                                         *)
(* Two calls of check are given the same text and the same options object. *)
(* The synchronous part of a call runs to completion before any other      *)
(* call or callback runs; pc[c] is where call c stands:                    *)
(*   "start"    not called yet                                             *)
(*   "parse" .. "launch"   inside the synchronous part                     *)
(*   "join"     returned Promise.all(promises).then(...), still pending    *)
(*   "done"     the returned promise is settled (or check threw)           *)
(***************************************************************************)
Calls == {1, 2}

VARIABLES
  args,          \* the arguments: [text, options], never changed
  options,       \* the caller's options object, which check writes to
  probeOutcome,  \* what ffprobe does for each reference, once decided
  pc,
  platform,      \* userOptions.platform after the default is applied
  text,          \* the local `text`
  errors,        \* the local `errors`
  speech,        \* the local `speech`
  audio,         \* the local `audio`
  promises,      \* the local `promises`: [src, state, value]
  lastSettled,   \* history: the probe of a call that settled last (0: none)
  parsed,        \* history: the character data given to each xml2json call
  ran,           \* history: the stages a call went through
  faulted,       \* history: the outer catch block ran
  result         \* what check gave back: [state, defined, errors]

vars ==
  <<args, options, probeOutcome, pc, platform, text, errors, speech, audio,
    promises, lastSettled, parsed, ran, faulted, result>>

NoElement == Elem(ABSENT, FALSE, <<>>, FALSE, <<>>)
Pending == [state |-> "pending", defined |-> FALSE, errors |-> <<>>]

InitWith(texts, optionValues) ==
  /\ args \in [text : texts, options : optionValues]
  /\ options = args.options
  /\ probeOutcome = [r \in Refs |-> Undecided]
  /\ pc = [c \in Calls |-> "start"]
  /\ platform = [c \in Calls |-> ABSENT]
  /\ text = [c \in Calls |-> args.text]
  /\ errors = [c \in Calls |-> <<>>]
  /\ speech = [c \in Calls |-> NoElement]
  /\ audio = [c \in Calls |-> <<>>]
  /\ promises = [c \in Calls |-> <<>>]
  /\ lastSettled = [c \in Calls |-> 0]
  /\ parsed = [c \in Calls |-> <<>>]
  /\ ran = [c \in Calls |-> {}]
  /\ faulted = [c \in Calls |-> FALSE]
  /\ result = [c \in Calls |-> Pending]

Init == InitWith(Texts, OptionValues)
InitPair == InitWith(PairTexts, PairOptions)

\* JavaScript runs the synchronous part of a call to completion
Running(c) == pc[c] \in {"parse", "retry", "schema", "extract", "launch"}
MayRun(c) == \A d \in Calls \ {c} : ~Running(d)

\* Promise.resolve(errors)
Resolved(errs) == [state |-> "resolved", defined |-> TRUE, errors |-> errs]

\* Promise.resolve(errors.length ? errors : undefined)
ResolvedOrUndefined(errs) ==
  [state |-> "resolved", defined |-> errs # <<>>, errors |-> errs]

\* userOptions.platform || 'all'
Falsy(value) == value \in {ABSENT, UNDEF, NULL, ZERO, ""}
platformOrDefault(value) == IF Falsy(value) THEN "all" ELSE value

\* no outer try/catch: the exception leaves check
throwToCaller(errs) == [state |-> "thrown", defined |-> FALSE, errors |-> errs]

\* the outer catch block, then the final return: what the call gives back
\* when something inside the try threw with `errs` accumulated
catchUnknown(errs) == ResolvedOrUndefined(Append(errs, OnlyType("unknown error")))

\* audio.length > 5
tooManyAudioFiles(files) == Len(files) > 5

\* the then callback of Promise.all: audioErrors is in the order of promises,
\* whichever probe settled last
RECURSIVE concatAudioErrors(_, _)
concatAudioErrors(errs, ps) ==
  IF ps = <<>> THEN errs
  ELSE concatAudioErrors(errs \o Head(ps).value, Tail(ps))

\* errors merged as the probes complete: those of the probe that settled last
\* come last
mergeAsCompleted(errs, ps, last) ==
  IF last \in 1..Len(ps)
  THEN concatAudioErrors(errs, SubSeq(ps, 1, last - 1) \o SubSeq(ps, last + 1, Len(ps)))
       \o ps[last].value
  ELSE concatAudioErrors(errs, ps)

mergeAudioErrors(errs, ps, last) == concatAudioErrors(errs, ps)

\* Promise.race(promises): settled as soon as one promise is
anySettled(ps) == ps = <<>> \/ \E i \in 1..Len(ps) : ps[i].state = "fulfilled"

\* Promise.all(promises) is fulfilled when every promise is
allSettled(ps) == \A i \in 1..Len(ps) : ps[i].state = "fulfilled"

Done(c, res) ==
  /\ pc' = [pc EXCEPT ![c] = "done"]
  /\ result' = [result EXCEPT ![c] = res]

\* lines 456-468: defaults and the platform check
Start(c) ==
  /\ pc[c] = "start"
  /\ MayRun(c)
  /\ LET p == platformOrDefault(options.platform)
     IN /\ options' = IF options.given THEN [options EXCEPT !.platform = p]
                      ELSE options
        /\ platform' = [platform EXCEPT ![c] = p]
        /\ IF p \notin {"all", "amazon", "google"}
           THEN /\ errors' = [errors EXCEPT ![c] = <<OnlyType("invalid platform")>>]
                /\ Done(c, Resolved(<<OnlyType("invalid platform")>>))
           ELSE /\ pc' = [pc EXCEPT ![c] = "parse"]
                /\ UNCHANGED <<errors, result>>
  /\ UNCHANGED <<args, probeOutcome, text, speech, audio, promises, lastSettled,
                 parsed, ran, faulted>>

\* lines 471-480: the first parse and the shape of its result
Parse(c) ==
  /\ pc[c] = "parse"
  /\ LET r == xml2json(text[c])
     IN /\ parsed' = [parsed EXCEPT ![c] = Append(@, text[c].chars)]
        /\ IF r.threw
           THEN /\ pc' = [pc EXCEPT ![c] = "retry"]
                /\ UNCHANGED <<errors, speech, result>>
           ELSE IF /\ r.result.hasElements
                   /\ Len(r.result.elements) = 1
                   /\ r.result.elements[1].name = "speak"
           THEN /\ speech' = [speech EXCEPT ![c] = r.result.elements[1]]
                /\ pc' = [pc EXCEPT ![c] = "schema"]
                /\ UNCHANGED <<errors, result>>
           ELSE /\ errors' = [errors EXCEPT ![c] =
                                Append(@, ErrorRecord("tag", "speak", ABSENT, ABSENT, ABSENT))]
                /\ Done(c, Resolved(errors'[c]))
                /\ UNCHANGED speech
  /\ UNCHANGED <<args, options, probeOutcome, platform, text, audio, promises,
                 lastSettled, ran, faulted>>

\* lines 481-494: the catch block of the first parse
Retry(c) ==
  /\ pc[c] = "retry"
  /\ LET t == [text[c] EXCEPT !.chars = replaceAmp(@)]
         r == xml2json(t)
     IN /\ text' = [text EXCEPT ![c] = t]
        /\ parsed' = [parsed EXCEPT ![c] = Append(@, t.chars)]
        /\ errors' = [errors EXCEPT ![c] =
                        Append(@, IF r.threw THEN OnlyType("Can't parse SSML")
                                  ELSE OnlyType("Invalid & character"))]
        /\ Done(c, Resolved(errors'[c]))
  /\ UNCHANGED <<args, options, probeOutcome, platform, speech, audio, promises,
                 lastSettled, ran, faulted>>

\* the outer catch block (lines 520-523) and the return of line 526
Caught(c, errs) ==
  /\ errors' = [errors EXCEPT ![c] = Append(errs, OnlyType("unknown error"))]
  /\ Done(c, catchUnknown(errs))

\* line 497: checkForValidTags(errors, speech, userOptions.platform)
SchemaChecked(c, r) ==
  /\ ran' = [ran EXCEPT ![c] = @ \cup {"schema"}]
  /\ faulted' = [faulted EXCEPT ![c] = r.threw]
  /\ IF r.threw
     THEN Caught(c, r.errors)
     ELSE /\ errors' = [errors EXCEPT ![c] = r.errors]
          /\ pc' = [pc EXCEPT ![c] = "extract"]
          /\ UNCHANGED result

Schema(c) ==
  /\ pc[c] = "schema"
  /\ SchemaChecked(c, checkForValidTags(errors[c], speech[c], platform[c]))
  /\ UNCHANGED <<args, options, probeOutcome, platform, text, speech, audio,
                 promises, lastSettled, parsed>>

\* lines 501-503
countAudioFiles(errs, files) ==
  IF tooManyAudioFiles(files)
  THEN Append(errs, OnlyType("Too many audio files")) ELSE errs

\* lines 500-506 and 526: getAudioFiles, the count, and the return when no
\* audio validation is asked for
Extracted(c, r) ==
  /\ ran' = [ran EXCEPT ![c] = @ \cup {"extract"}]
  /\ faulted' = [faulted EXCEPT ![c] = r.threw]
  /\ IF r.threw
     THEN /\ Caught(c, errors[c])
          /\ UNCHANGED audio
     ELSE /\ audio' = [audio EXCEPT ![c] = r.files]
          /\ errors' = [errors EXCEPT ![c] = countAudioFiles(@, r.files)]
          /\ IF options.validateAudioFiles
             THEN /\ pc' = [pc EXCEPT ![c] = "launch"]
                  /\ UNCHANGED result
             ELSE Done(c, ResolvedOrUndefined(errors'[c]))

Extract(c) ==
  /\ pc[c] = "extract"
  /\ Extracted(c, getAudioFiles(speech[c]))
  /\ UNCHANGED <<args, options, probeOutcome, platform, text, speech, promises,
                 lastSettled, parsed>>

\* lines 509-511 with validateAudio (75-90): one turn of audio.forEach
Launch(c) ==
  /\ pc[c] = "launch"
  /\ Len(promises[c]) < Len(audio[c])
  /\ LET src == audio[c][Len(promises[c]) + 1]
     IN IF ~MatchHttpsMp3(src)
        THEN /\ promises' = [promises EXCEPT ![c] =
                  Append(@, [src |-> src, state |-> "fulfilled",
                             value |-> <<AudioError(src, "Not MP3 on HTTPS")>>])]
             /\ UNCHANGED <<probeOutcome, pc, errors, ran, faulted, result>>
        ELSE \E o \in (IF probeOutcome[src] = Undecided THEN Outcomes
                       ELSE {probeOutcome[src]}) :
               /\ probeOutcome' = [probeOutcome EXCEPT ![src] = o]
               /\ ran' = [ran EXCEPT ![c] = @ \cup {"probe"}]
               /\ IF o.kind = "throws"
                  THEN /\ faulted' = [faulted EXCEPT ![c] = TRUE]
                       /\ Caught(c, errors[c])
                       /\ UNCHANGED promises
                  ELSE /\ promises' = [promises EXCEPT ![c] =
                            Append(@, [src |-> src, state |-> "pending",
                                       value |-> <<>>])]
                       /\ UNCHANGED <<pc, errors, faulted, result>>
  /\ UNCHANGED <<args, options, platform, text, speech, audio, lastSettled, parsed>>

\* line 513: return Promise.all(promises).then(...)
Return(c) ==
  /\ pc[c] = "launch"
  /\ Len(promises[c]) = Len(audio[c])
  /\ pc' = [pc EXCEPT ![c] = "join"]
  /\ UNCHANGED <<args, options, probeOutcome, platform, text, errors, speech,
                 audio, promises, lastSettled, parsed, ran, faulted, result>>

\* lines 90-109: the probe of promises[c][i] settles and the then or catch
\* callback of validateAudio fulfils the promise
Settle(c, i) ==
  /\ \A d \in Calls : ~Running(d)
  /\ i \in 1..Len(promises[c])
  /\ promises[c][i].state = "pending"
  /\ LET src == promises[c][i].src
     IN promises' = [promises EXCEPT ![c][i] =
          [src |-> src, state |-> "fulfilled",
           value |-> probeErrors(src, probeOutcome[src])]]
  /\ lastSettled' = [lastSettled EXCEPT ![c] = i]
  /\ UNCHANGED <<args, options, probeOutcome, pc, platform, text, errors, speech,
                 audio, parsed, ran, faulted, result>>

\* lines 513-518: the then callback of Promise.all
Join(c) ==
  /\ pc[c] = "join"
  /\ \A d \in Calls : ~Running(d)
  /\ allSettled(promises[c])
  /\ errors' = [errors EXCEPT ![c] =
                  mergeAudioErrors(@, promises[c], lastSettled[c])]
  /\ Done(c, ResolvedOrUndefined(errors'[c]))
  /\ UNCHANGED <<args, options, probeOutcome, platform, text, speech, audio,
                 promises, lastSettled, parsed, ran, faulted>>

Step(c) ==
  \/ Start(c)
  \/ Parse(c)
  \/ Retry(c)
  \/ Schema(c)
  \/ Extract(c)
  \/ Launch(c)
  \/ Return(c)
  \/ \E i \in 1..MaxRepeat + 1 : Settle(c, i)
  \/ Join(c)

\* one call
Next == Step(1)
Spec == Init /\ [][Next]_vars

\* two calls with the same arguments
NextPair == \E c \in Calls : Step(c)
SpecPair == InitPair /\ [][NextPair]_vars

(***************************************************************************)
(* Properties                                                              *)
(***************************************************************************)
\* the elements of a tree in document order
RECURSIVE Preorder(_)
RECURSIVE PreorderAll(_)
PreorderAll(elements) ==
  IF elements = <<>> THEN <<>>
  ELSE Preorder(Head(elements)) \o PreorderAll(Tail(elements))
Preorder(element) == <<element>> \o PreorderAll(element.elements)

CountType(errs, type) == Cardinality({i \in 1..Len(errs) : errs[i].type = type})
HasType(errs, type) == \E i \in 1..Len(errs) : errs[i].type = type

Finished(c) == pc[c] = "done"

\* C1: check never throws and its promise never rejects: a finished call has
\* resolved, a call not finished is still pending; when something threw inside
\* the outer try (schema validation, audio extraction, launching a probe) the
\* resolved error sequence is defined and holds exactly one 'unknown error'
\* record, its last one, and without such a fault it holds none.
C1_FaultResolvesUnknown ==
  \A c \in Calls :
    /\ result[c].state = (IF Finished(c) THEN "resolved" ELSE "pending")
    /\ Finished(c) /\ faulted[c] =>
         /\ result[c].defined
         /\ CountType(result[c].errors, "unknown error") = 1
         /\ result[c].errors[Len(result[c].errors)] = OnlyType("unknown error")
    /\ ~faulted[c] => ~HasType(result[c].errors, "unknown error")

\* a probe launch threw after another probe was launched, with schema errors
\* already accumulated
C1_Witness ==
  /\ Finished(1)
  /\ faulted[1]
  /\ "probe" \in ran[1]
  /\ Len(promises[1]) >= 1
  /\ HasType(result[1].errors, "tag")

\* C2: a parsed document with more than 5 audio elements yields 'Too many
\* audio files', whatever validateAudioFiles is and whether or not the audio
\* elements have child content (stated for the audio elements that carry a
\* src, in the calls in which nothing threw).
AudioElements(element) ==
  Cardinality({i \in 1..Len(Preorder(element)) :
                 /\ Preorder(element)[i].name = "audio"
                 /\ AttributeValue(Preorder(element)[i], "src") \notin {UNDEF, ""}})

C2_TooManyAudioElements ==
  \A c \in Calls :
    (Finished(c) /\ "extract" \in ran[c] /\ ~faulted[c]
       /\ AudioElements(speech[c]) > 5)
    => HasType(result[c].errors, "Too many audio files")

\* C3: an element without attributes whose tag requires one (amazon:effect
\* and lang under amazon, audio and emphasis under every platform) gives a Tag
\* error with that tag, recording the missing attribute.
RequiredUnder(name, p) ==
  \/ name \in {"audio", "emphasis"}
  \/ p = "amazon" /\ name \in {"amazon:effect", "lang"}

C3_MissingRequiredAttribute ==
  \A c \in Calls :
    (Finished(c) /\ "schema" \in ran[c]) =>
      \A i \in 1..Len(Preorder(speech[c])) :
        LET e == Preorder(speech[c])[i]
        IN (RequiredUnder(e.name, platform[c]) /\ e.attributes = <<>>) =>
             \E k \in 1..Len(result[c].errors) :
               /\ result[c].errors[k].type = "tag"
               /\ result[c].errors[k].tag = e.name
               /\ result[c].errors[k].attribute = "none"

\* C4: under google every direct child of a par or seq that is not named par,
\* seq or media gives a Tag error with tag = the parent's name and value = the
\* child's name; the other children give none.
C4_ParSeqChildCited ==
  \A c \in Calls :
    (Finished(c) /\ "schema" \in ran[c] /\ platform[c] = "google") =>
      \A i \in 1..Len(Preorder(speech[c])) :
        LET e == Preorder(speech[c])[i]
        IN e.name \in {"par", "seq"} =>
             \A j \in 1..Len(e.elements) :
               (e.elements[j].name \notin {"par", "seq", "media"})
               <=> \E k \in 1..Len(result[c].errors) :
                     /\ result[c].errors[k].type = "tag"
                     /\ result[c].errors[k].tag = e.name
                     /\ result[c].errors[k].value = e.elements[j].name

\* C5: the number of Tag errors for interpret-as is the number of say-as
\* elements whose interpret-as is neither universal, nor one of number,
\* digits, address, interjection under amazon, nor bleep, verbatim under
\* google; each carries the value.
InterpretAsAllowed(p, v) ==
  \/ v \in {"characters", "spell-out", "cardinal", "ordinal", "fraction", "unit",
            "date", "time", "telephone", "expletive"}
  \/ p = "amazon" /\ v \in {"number", "digits", "address", "interjection"}
  \/ p = "google" /\ v \in {"bleep", "verbatim"}

C5_InterpretAsByPlatform ==
  \A c \in Calls :
    (Finished(c) /\ "schema" \in ran[c] /\ ~faulted[c]) =>
      \A v \in {"cardinal", "number", "bleep", "bogus"} :
        Cardinality({k \in 1..Len(result[c].errors) :
                       /\ result[c].errors[k].tag = "say-as"
                       /\ result[c].errors[k].attribute = "interpret-as"
                       /\ result[c].errors[k].value = v})
        = Cardinality({i \in 1..Len(Preorder(speech[c])) :
                         /\ Preorder(speech[c])[i].name = "say-as"
                         /\ AttributeValue(Preorder(speech[c])[i], "interpret-as") = v
                         /\ ~InterpretAsAllowed(platform[c], v)})

\* C6: a platform option that is given and is not 'all', 'amazon' or 'google'
\* gives exactly one 'invalid platform' record and nothing is parsed,
\* validated, extracted or probed.
C6_InvalidPlatformOnly ==
  \A c \in Calls :
    (Finished(c) /\ args.options.given
       /\ args.options.platform \notin {ABSENT, "all", "amazon", "google"})
    => /\ result[c] = Resolved(<<OnlyType("invalid platform")>>)
       /\ parsed[c] = <<>>
       /\ ran[c] = {}

\* C7: when the first parse fails the parser is called exactly once more, on
\* the text with its first & followed by amp; and nothing else changed; the
\* result is exactly 'Invalid & character' when that parse succeeds and
\* exactly "Can't parse SSML" when it fails; no schema validation, audio
\* extraction or probe takes place.
FirstAmpEscaped(before, after) ==
  IF \A i \in 1..Len(before) : before[i] # "&" THEN after = before
  ELSE \E i \in 1..Len(before) :
         /\ before[i] = "&"
         /\ \A j \in 1..(i - 1) : before[j] # "&"
         /\ Len(after) = Len(before) + 1
         /\ \A j \in 1..i : after[j] = before[j]
         /\ after[i + 1] = "amp;"
         /\ \A j \in (i + 1)..Len(before) : after[j + 1] = before[j]

C7_RetryOnceThenStop ==
  \A c \in Calls :
    (Finished(c) /\ parsed[c] # <<>> /\ ~WellFormed(parsed[c][1])) =>
      /\ Len(parsed[c]) = 2
      /\ parsed[c][1] = args.text.chars
      /\ FirstAmpEscaped(parsed[c][1], parsed[c][2])
      /\ result[c] =
           Resolved(<<OnlyType(IF WellFormed(parsed[c][2])
                               THEN "Invalid & character"
                               ELSE "Can't parse SSML")>>)
      /\ ran[c] = {}
      /\ promises[c] = <<>>

\* the retry repaired a text with one bare &, audio validation being asked for
C7_Witness ==
  /\ Finished(1)
  /\ Len(parsed[1]) = 2
  /\ parsed[1][1] # parsed[1][2]
  /\ result[1].errors = <<OnlyType("Invalid & character")>>
  /\ options.validateAudioFiles

\* what a call that went through the whole pipeline is to give back: the
\* schema errors in document order, then 'Too many audio files', then the
\* audio errors of each extracted reference, in extraction order
RECURSIVE AudioErrorsInOrder(_, _)
AudioErrorsInOrder(files, outcome) ==
  IF files = <<>> THEN <<>>
  ELSE (IF MatchHttpsMp3(Head(files))
        THEN probeErrors(Head(files), outcome[Head(files)])
        ELSE <<AudioError(Head(files), "Not MP3 on HTTPS")>>)
       \o AudioErrorsInOrder(Tail(files), outcome)

ExpectedErrors(c) ==
  checkForValidTags(<<>>, speech[c], platform[c]).errors
  \o (IF Len(audio[c]) > 5 THEN <<OnlyType("Too many audio files")>> ELSE <<>>)
  \o AudioErrorsInOrder(audio[c], probeOutcome)

\* C8: two calls with the same text and options, the probes giving the same
\* outcome for each reference, resolve with the same error sequence, whatever
\* order the probes complete in; after the join that sequence is the schema
\* errors, then 'Too many audio files', then the audio errors by reference in
\* extraction order.
C8_SameResultTwice ==
  /\ (Finished(1) /\ Finished(2)) => result[1] = result[2]
  /\ \A c \in Calls :
       (Finished(c) /\ "extract" \in ran[c] /\ ~faulted[c]
          /\ options.validateAudioFiles)
       => result[c].errors = ExpectedErrors(c)

\* both calls joined two probes of different references that completed in
\* different orders
C8_Witness ==
  /\ Finished(1) /\ Finished(2)
  /\ lastSettled[1] = 2
  /\ lastSettled[2] = 1
  /\ audio[1] = <<RefB, RefA>>
  /\ CountType(result[1].errors, "audio") >= 2
  /\ ~faulted[1]

ProbeFails(outcome) ==
  outcome.kind = "rejects" \/ (outcome.kind = "resolves" /\ ~outcome.hasStreams)

C10_EveryElementValidated ==
  \A c \in Calls :
    (Finished(c) /\ "schema" \in ran[c]) =>
      \A i \in 1..Len(Preorder(speech[c])) :
        LET e == Preorder(speech[c])[i]
        IN /\ (e.name # UNDEF /\ IllegalTag(e.name, platform[c])) =>
                \E k \in 1..Len(result[c].errors) :
                  result[c].errors[k] = IllegalTagError(e)
           /\ (e.name # UNDEF /\ ~IllegalTag(e.name, platform[c])
                 /\ e.name \notin {"par", "seq"}) =>
                \A a \in 1..Len(e.attributes) :
                  AttributeRule(e, platform[c], e.attributes[a][1]) # "ok" =>
                    \E k \in 1..Len(result[c].errors) :
                      /\ result[c].errors[k].type = "tag"
                      /\ result[c].errors[k].tag = e.name
                      /\ result[c].errors[k].attribute = e.attributes[a][1]

\* C11: a break's time is accepted exactly when the whole text is digits
\* followed by ms, or digits with an optional .digits fraction followed by s,
\* and the milliseconds it spells (integer part times 1000 for s) are at most
\* 10000; every other time gives exactly one Tag error for attribute time
\* (counted per value, in the calls in which nothing threw).
WholeDuration(s) ==
  \/ EndsWith(s, <<"m", "s">>) /\ IsDigits(SubSeq(s, 1, Len(s) - 2))
  \/ EndsWith(s, <<"s">>) /\ IsDecimal(SubSeq(s, 1, Len(s) - 1))

Milliseconds(s) ==
  IF EndsWith(s, <<"m", "s">>) THEN DigitsValue(s, 0) ELSE 1000 * DigitsValue(s, 0)

BreakTimeAccepted(time) ==
  WholeDuration(Chars(time)) /\ Milliseconds(Chars(time)) <= 10000

C11_BreakTimeWholeDuration ==
  \A c \in Calls :
    (Finished(c) /\ "schema" \in ran[c] /\ ~faulted[c]) =>
      \A v \in {"5s", "20s", "500ms", "1.5s", "20000ms", "infinity", "5msx", "x5ms"} :
        Cardinality({k \in 1..Len(result[c].errors) :
                       /\ result[c].errors[k].type = "tag"
                       /\ result[c].errors[k].tag = "break"
                       /\ result[c].errors[k].attribute = "time"
                       /\ result[c].errors[k].value = v})
        = Cardinality({i \in 1..Len(Preorder(speech[c])) :
                         /\ Preorder(speech[c])[i].name = "break"
                         /\ AttributeValue(Preorder(speech[c])[i], "time") = v
                         /\ ~BreakTimeAccepted(v)})
====
